---- MODULE Spec2Model ----
(***************************************************************************)
(* Model of main.py: the Notion news pipeline.                             *)
(*                                                                         *)
(*   SpecRequest  notion_request: the retry loop of the transport client   *)
(*   SpecResolve  resolve_data_source_id_by_schema                         *)
(*   Spec         main, run repeatedly (runs do not overlap) against the   *)
(*                two Notion collections                                   *)
(*   SpecOverlap  main, two runs overlapping on one feed snapshot          *)
(*   SpecSummarize, SpecTitle, SpecPick                                    *)
(*                the terms of summarize_and_extract_terms, the title      *)
(*                property of a request, the sort and pick of the items    *)
(***************************************************************************)
EXTENDS Integers, Sequences, FiniteSets, TLC

VARIABLES
    nr,            \* notion_request: the locals of the call in progress
    responses,     \* notion_request: what each HTTP attempt of the call got
    data_sources,  \* the parent database's "data_sources" listing, in its order
    ds_properties, \* data source id -> the property names of its schema
    rs,            \* resolve_data_source_id_by_schema: the locals of the call
    news_pages,    \* the pages of the news data source, in creation order
    term_pages,    \* the pages of the terms data source, in creation order
    picked,        \* the links of the items main picks from the feed snapshot
    run,           \* main: the locals of each run
    runs_done,     \* the runs of main that have ended
    faults,        \* the failed attempts and raises so far
    errors,        \* the exceptions so far: caught per item, or ending main
    sm,            \* summarize_and_extract_terms: the locals of the call
    tf,            \* a title write or exact-title lookup: schema and filter
    all_items,     \* main: the items the feeds returned, in fetch order
    pk             \* main: the locals of the sort and pick of lines 599-613

reqVars == <<nr, responses>>
resVars == <<data_sources, ds_properties, rs>>
mainVars == <<news_pages, term_pages, picked, run, runs_done, faults, errors>>
callVars == <<sm, tf, all_items, pk>>
vars == <<nr, responses, data_sources, ds_properties, rs,
          news_pages, term_pages, picked, run, runs_done, faults, errors,
          sm, tf, all_items, pk>>

(***************************************************************************)
(* Transport client (notion_request)                                       *)
(***************************************************************************)

NOTION_RETRY == 4

\* Status codes the server answers with: success, permanent 4xx, rate limit,
\* 5xx in and out of the retry tuple.
StatusCodes == {200, 204, 400, 404, 429, 500, 501, 502, 503, 504}

\* Response texts: blank, whitespace only, two JSON documents, not JSON.
Texts == {"", " ", "{x}", "{y}", "<html>"}

\* resp.text.strip()
Strip(text) == IF text = " " THEN "" ELSE text

\* resp.json(): defined on the texts that are JSON, raises on the others
IsJson(text) == text \in {"{x}", "{y}"}
Json(text) == [json |-> text]
EmptyDict == [json |-> "{}"]
None == [none |-> TRUE]

\* _sleep_backoff: the time slept, in milliseconds
Pow2(n) == IF n = 0 THEN 1 ELSE IF n = 1 THEN 2 ELSE IF n = 2 THEN 4 ELSE 8
Min(a, b) == IF a < b THEN a ELSE b
SleepBackoff_ms(attempt) == Min(6000, 600 * Pow2(attempt)) + 50 * attempt

RetryStatuses_No503 == {429, 500, 502, 504}

\* the statuses line 180 retries
RetryStatuses == {429, 500, 502, 503, 504}
IsRetryStatus_AnyError(status) == status >= 400
IsRetryStatus(status) == status \in RetryStatuses

LoopContinues_OffByOne(attempt) == attempt + 1 <= NOTION_RETRY

\* for attempt in range(NOTION_RETRY): is there a next iteration
LoopContinues(attempt) == attempt + 1 < NOTION_RETRY

\* try: err_json = resp.json()  except: {"status": ..., "text": ...}
ErrJson(status, text) ==
    IF IsJson(text) THEN Json(text) ELSE [status |-> status, text |-> text]

NewRequest ==
    [attempt |-> 0, last_err |-> None, status |-> "running",
     value |-> None, slept |-> <<>>]

SleepAndContinue_FirstError(st, err) ==
    LET slept == Append(st.slept, SleepBackoff_ms(st.attempt))
        kept == IF st.last_err = None THEN err ELSE st.last_err
    IN
    IF LoopContinues(st.attempt)
    THEN [st EXCEPT !.attempt = @ + 1, !.last_err = kept, !.slept = slept]
    ELSE [st EXCEPT !.last_err = kept, !.slept = slept, !.status = "raised",
                    !.value = [exc |-> "NotionHTTPError",
                               msg |-> "failed after retries", err |-> kept]]

\* The end of a loop iteration that did not return or raise: the backoff
\* sleep, then the next iteration, or the raise after the loop.
SleepAndContinue(st, err) ==
    LET slept == Append(st.slept, SleepBackoff_ms(st.attempt)) IN
    IF LoopContinues(st.attempt)
    THEN [st EXCEPT !.attempt = @ + 1, !.last_err = err, !.slept = slept]
    ELSE [st EXCEPT !.last_err = err, !.slept = slept, !.status = "raised",
                    !.value = [exc |-> "NotionHTTPError",
                               msg |-> "failed after retries", err |-> err]]

\* One iteration on an HTTP response
OnResponse(st, status, text) ==
    IF 200 <= status /\ status < 300
    THEN IF Strip(text) # ""
         THEN IF IsJson(text)
              THEN [st EXCEPT !.status = "returned", !.value = Json(text)]
              ELSE [st EXCEPT !.status = "raised",
                              !.value = [exc |-> "JSONDecodeError"]]
         ELSE [st EXCEPT !.status = "returned", !.value = EmptyDict]
    ELSE IF IsRetryStatus(status)
         THEN SleepAndContinue(st, ErrJson(status, text))
         ELSE [st EXCEPT !.status = "raised",
                         !.value = [exc |-> "NotionHTTPError", msg |-> "api error",
                                    status |-> status,
                                    err |-> ErrJson(status, text)]]

\* One iteration that ends in requests.Timeout or requests.ConnectionError
OnNetworkError(st, msg) == SleepAndContinue(st, [error |-> msg])

RequestIdle ==
    /\ nr = NewRequest
    /\ responses = <<>>

ResolveIdle ==
    /\ data_sources = <<>>
    /\ ds_properties = <<>>
    /\ rs = [pc |-> "idle"]

Runs == {1, 2}

IdleRun ==
    [pc |-> "idle", i |-> 0, terms |-> <<>>, k |-> 0, news_page_id |-> 0,
     existing_id |-> 0, existing_rel |-> <<>>, req |-> NewRequest,
     posts |-> 0, patches |-> 0, created |-> 0, upserts |-> <<>>]

MainIdle ==
    /\ news_pages = <<>>
    /\ term_pages = <<>>
    /\ picked = <<>>
    /\ run = [r \in Runs |-> IdleRun]
    /\ runs_done = 0
    /\ faults = 0
    /\ errors = [item |-> 0, main |-> 0]

SummarizeIdle == sm = [pc |-> "idle"]

TitleIdle == tf = [pc |-> "idle"]

PickIdle ==
    /\ all_items = <<>>
    /\ pk = [pc |-> "idle"]

CallsIdle ==
    /\ SummarizeIdle
    /\ TitleIdle
    /\ PickIdle

InitRequest ==
    /\ RequestIdle
    /\ ResolveIdle
    /\ MainIdle
    /\ CallsIdle

HttpResponse ==
    /\ nr.status = "running"
    /\ \E status \in StatusCodes, text \in Texts :
          /\ nr' = OnResponse(nr, status, text)
          /\ responses' = Append(responses,
                 [kind |-> "http", status |-> status, text |-> text])
    /\ UNCHANGED <<callVars, resVars, mainVars>>

HttpTimeout ==
    /\ nr.status = "running"
    /\ nr' = OnNetworkError(nr, "timed out")
    /\ responses' = Append(responses, [kind |-> "timeout", text |-> "timed out"])
    /\ UNCHANGED <<callVars, resVars, mainVars>>

HttpConnectionError ==
    /\ nr.status = "running"
    /\ nr' = OnNetworkError(nr, "connection refused")
    /\ responses' = Append(responses,
           [kind |-> "connection", text |-> "connection refused"])
    /\ UNCHANGED <<callVars, resVars, mainVars>>

\* the caller's next notion_request
NextCall ==
    /\ nr.status # "running"
    /\ nr' = NewRequest
    /\ responses' = <<>>
    /\ UNCHANGED <<callVars, resVars, mainVars>>

NextRequest == HttpResponse \/ HttpTimeout \/ HttpConnectionError \/ NextCall

SpecRequest == InitRequest /\ [][NextRequest]_vars

(***************************************************************************)
(* Properties of notion_request                                            *)
(***************************************************************************)

\* The failures the documentation calls transient: rate limit, the 5xx that
\* are retried, a timeout, a connection error.
TransientFailure(r) ==
    \/ r.kind \in {"timeout", "connection"}
    \/ r.kind = "http" /\ r.status \in {429, 500, 502, 503, 504}

Success2xx(r) == r.kind = "http" /\ 200 <= r.status /\ r.status < 300

\* the call got k transient failures, then a 2xx response
FailuresThenSuccess ==
    /\ responses # <<>>
    /\ Success2xx(responses[Len(responses)])
    /\ \A i \in 1..(Len(responses) - 1) : TransientFailure(responses[i])

AttemptsBounded ==
    /\ Len(responses) <= 4
    /\ Len(responses) = 4 => nr.status # "running"

\* C9 as stated: a call makes at most 4 HTTP attempts and then ends, and k <= 3
\* transient failures followed by any 2xx response make the call return,
\* without raising, after exactly those k+1 attempts.
C9_AnySuccessReturns ==
    /\ AttemptsBounded
    /\ FailuresThenSuccess => nr.status = "returned"

\* C9 amended: a call makes at most 4 HTTP attempts and then ends; k <= 3
\* transient failures followed by a 2xx response whose body is blank or valid
\* JSON make the call return that body parsed ({} for a blank one) after
\* exactly k+1 attempts and k backoff sleeps; a 2xx response whose body is
\* neither makes the call raise the JSON decoding error.
C9_BoundedRetry ==
    /\ AttemptsBounded
    /\ FailuresThenSuccess =>
          LET text == responses[Len(responses)].text IN
          /\ Len(responses) <= 4
          /\ Len(nr.slept) = Len(responses) - 1
          /\ text \in {"{x}", "{y}"} =>
                nr.status = "returned" /\ nr.value = [json |-> text]
          /\ text \in {"", " "} =>
                nr.status = "returned" /\ nr.value = [json |-> "{}"]
          /\ text = "<html>" =>
                nr.status = "raised" /\ nr.value = [exc |-> "JSONDecodeError"]

\* three transient failures, then the fourth attempt succeeds
C9_Witness ==
    /\ FailuresThenSuccess
    /\ Len(responses) = 4
    /\ responses[1].kind = "http" /\ responses[1].status = 429
    /\ responses[4].text = "{x}"
    /\ nr.status = "returned"

PermanentError(r) ==
    r.kind = "http" /\ 400 <= r.status /\ r.status < 500 /\ r.status # 429

\* C10: an attempt that gets a 4xx other than 429 is the call's last: the call
\* has raised the API error, no attempt follows it, and the only backoff sleeps
\* are those of the attempts before it.
C10_PermanentNotRetried ==
    \A i \in 1..Len(responses) :
        PermanentError(responses[i]) =>
            /\ i = Len(responses)
            /\ nr.status = "raised"
            /\ nr.value.exc = "NotionHTTPError" /\ nr.value.msg = "api error"
            /\ nr.value.status = responses[i].status
            /\ Len(nr.slept) = i - 1

\* a permanent error on the third attempt (index 2), after two retries
C10_Witness ==
    /\ Len(responses) = 3
    /\ PermanentError(responses[3])
    /\ TransientFailure(responses[1]) /\ TransientFailure(responses[2])
    /\ nr.status = "raised"

\* what an attempt showed of its failure: the error body parsed, or the
\* status and raw text of a body that is not JSON, or the network error text
ObservedError(r) ==
    IF r.kind = "http"
    THEN IF r.text \in {"{x}", "{y}"}
         THEN [json |-> r.text]
         ELSE [status |-> r.status, text |-> r.text]
    ELSE [error |-> r.text]

\* rate limit, any 5xx, timeout or connection error
FailedAttempt(r) ==
    \/ r.kind \in {"timeout", "connection"}
    \/ r.kind = "http" /\ (r.status = 429 \/ (500 <= r.status /\ r.status <= 599))

\* C11: when all 4 attempts of a call end in a transient failure the call has
\* raised the after-retries error and its payload is the error body (or the
\* network error text) of the 4th attempt.  (A 4th attempt that gets a 5xx
\* outside the retried ones raises the API error, also with that attempt's
\* body.)
C11_LastErrorCarried ==
    (Len(responses) = 4 /\ \A i \in 1..4 : FailedAttempt(responses[i])) =>
        /\ nr.status = "raised"
        /\ nr.value.exc = "NotionHTTPError"
        /\ nr.value.err = ObservedError(responses[4])
        /\ TransientFailure(responses[4]) =>
              /\ nr.value.msg = "failed after retries"
              /\ nr.last_err = ObservedError(responses[4])
              /\ Len(nr.slept) = 4

\* a timeout, two rate limits, then a 503 with another body
C11_Witness ==
    /\ Len(responses) = 4
    /\ responses[1].kind = "timeout"
    /\ responses[2].kind = "http" /\ responses[2].status = 429
    /\ responses[2].text = "{x}"
    /\ responses[3].kind = "http" /\ responses[3].status = 429
    /\ responses[4].kind = "http" /\ responses[4].status = 503
    /\ responses[4].text = "{y}"
    /\ nr.status = "raised"
    /\ nr.value.err = [json |-> "{y}"]

\* the attempt is not the call's last: another followed it, or will
Retried(i) == i < Len(responses) \/ nr.status = "running"

ServerError(r) == r.kind = "http" /\ 500 <= r.status /\ r.status <= 599

MaxSources == 2

\* ["yongeo" (term), "uimi" (meaning), "gwanryeon gisa" (related articles)]
TERMS_REQUIRED_PROPS == <<"yongeo", "uimi", "gwanryeon gisa">>

Range(s) == {s[i] : i \in 1..Len(s)}

\* the property names a schema may hold: the required ones and one other
PropertyNames == Range(TERMS_REQUIRED_PROPS) \cup {"memo"}

\* data source names as sequences of code points: "", "A", "B", "AB"
Names == {<<>>, <<65>>, <<66>>, <<65, 66>>}

\* Python's str < str: by code point, a proper prefix first
StrLess(a, b) ==
    \E i \in 1..(Len(b)) :
        /\ \A j \in 1..(i - 1) : j <= Len(a) /\ a[j] = b[j]
        /\ \/ i = Len(a) + 1
           \/ i <= Len(a) /\ a[i] < b[i]

\* Python's tuple < tuple on keys (int, str)
KeyLess(k1, k2) ==
    \/ k1[1] < k2[1]
    \/ k1[1] = k2[1] /\ StrLess(k1[2], k2[2])

\* sorted(): stable, on a sequence of [key, item]
RECURSIVE Insert(_, _)
Insert(s, x) ==
    IF s = <<>> THEN <<x>>
    ELSE IF KeyLess(x.key, Head(s).key) THEN <<x>> \o s
    ELSE <<Head(s)>> \o Insert(Tail(s), x)

RECURSIVE Sorted(_)
Sorted(s) ==
    IF s = <<>> THEN <<>>
    ELSE Insert(Sorted(SubSeq(s, 1, Len(s) - 1)), s[Len(s)])

\* lines 250-255: the (ds_id, ds_name) of the entries that have an id
Candidates(listing) == SelectSeq(listing, LAMBDA ds : ds.id # 0)

\* [p for p in required_prop_names if p not in ds_props]
Missing(required, ds_props) ==
    SelectSeq(required, LAMBDA p : p \notin ds_props)

\* lines 272-276: one entry of scored
Scored(c, ds_props, required) ==
    LET missing == Missing(required, ds_props) IN
    [score |-> Len(required) - Len(missing), id |-> c.id, name |-> c.name,
     missing |-> missing]

Full_Partial(scored, required) ==
    SelectSeq(scored, LAMBDA x : x.score > 0)

\* full = [x for x in scored if x[0] == len(required_prop_names)]
Full(scored, required) ==
    SelectSeq(scored, LAMBDA x : x.score = Len(required))

FullKey_NameOnly(t) == <<0, t.name>>

\* key=lambda t: (len(t[2]), t[2])
FullKey(t) == <<Len(t.name), t.name>>

DiagKey_Ascending(t) == <<t.score, t.name>>

\* key=lambda t: (-t[0], t[2])
DiagKey(t) == <<0 - t.score, t.name>>

FullSorted_AsListed(full) == full

\* full_sorted = sorted(full, key=...)
FullSorted(full) ==
    LET keyed == Sorted([i \in 1..Len(full) |->
                            [key |-> FullKey(full[i]), item |-> full[i]]])
    IN  [i \in 1..Len(full) |-> keyed[i].item]

\* scored_sorted = sorted(scored, key=...)
ScoredSorted(scored) ==
    LET keyed == Sorted([i \in 1..Len(scored) |->
                            [key |-> DiagKey(scored[i]), item |-> scored[i]]])
    IN  [i \in 1..Len(scored) |-> keyed[i].item]

Returned(ds_id) == [kind |-> "return", id |-> ds_id]
Raised(error) == [kind |-> "raise", error |-> error]

SingleResult_Unchecked(c, ds_props, required) == Returned(c.id)

\* lines 257-267: the only candidate
SingleResult(c, ds_props, required) ==
    LET missing == Missing(required, ds_props) IN
    IF missing # <<>>
    THEN [kind |-> "raise", error |-> "schema mismatch", id |-> c.id,
          name |-> c.name, missing |-> missing]
    ELSE Returned(c.id)

\* lines 278-296: the pick among the scored candidates
PickResult(scored, required) ==
    LET full == Full(scored, required) IN
    IF Len(full) = 1 THEN Returned(full[1].id)
    ELSE IF Len(full) > 1 THEN Returned(FullSorted(full)[1].id)
    ELSE LET sorted == ScoredSorted(scored) IN
         [kind |-> "raise", error |-> "could not resolve",
          diag |-> [i \in 1..Len(sorted) |->
                       [data_source_id |-> sorted[i].id, name |-> sorted[i].name,
                        matched |-> sorted[i].score,
                        missing |-> sorted[i].missing]]]

\* the whole function on a listing whose every retrieve succeeds
ResolveOf(listing, props, required) ==
    IF listing = <<>> THEN Raised("no data_sources")
    ELSE LET cands == Candidates(listing) IN
         IF Len(cands) = 1
         THEN SingleResult(cands[1], props[cands[1].id], required)
         ELSE PickResult([i \in 1..Len(cands) |->
                             Scored(cands[i], props[cands[i].id], required)],
                         required)

\* the listings of n entries: entry i has id i, or none
Listings(n) ==
    {[i \in 1..n |-> [id |-> IF has[i] THEN i ELSE 0, name |-> nm[i]]] :
        has \in [1..n -> BOOLEAN], nm \in [1..n -> Names]}

required_prop_names == TERMS_REQUIRED_PROPS

ResolveStart ==
    [pc |-> "retrieve_database", candidates |-> <<>>, scored |-> <<>>,
     result |-> None]

InitResolve ==
    /\ RequestIdle
    /\ MainIdle
    /\ CallsIdle
    /\ \E n \in 0..MaxSources :
          /\ data_sources \in Listings(n)
          /\ ds_properties \in [1..n -> SUBSET PropertyNames]
          /\ \A i \in 1..n : data_sources[i].id = 0 => ds_properties[i] = {}
    /\ rs = ResolveStart

\* lines 245-256
RetrieveDatabase ==
    /\ rs.pc = "retrieve_database"
    /\ IF data_sources = <<>>
       THEN rs' = [rs EXCEPT !.pc = "done", !.result = Raised("no data_sources")]
       ELSE LET cands == Candidates(data_sources) IN
            rs' = [rs EXCEPT !.candidates = cands,
                             !.pc = IF Len(cands) = 1 THEN "single" ELSE "score"]
    /\ UNCHANGED <<callVars, reqVars, mainVars, data_sources, ds_properties>>

\* lines 257-267
RetrieveSingle ==
    /\ rs.pc = "single"
    /\ LET c == rs.candidates[1] IN
       rs' = [rs EXCEPT !.pc = "done",
                 !.result = SingleResult(c, ds_properties[c.id], required_prop_names)]
    /\ UNCHANGED <<callVars, reqVars, mainVars, data_sources, ds_properties>>

\* lines 271-276: one iteration
RetrieveDataSource ==
    /\ rs.pc = "score"
    /\ Len(rs.scored) < Len(rs.candidates)
    /\ LET c == rs.candidates[Len(rs.scored) + 1] IN
       rs' = [rs EXCEPT !.scored =
                 Append(@, Scored(c, ds_properties[c.id], required_prop_names))]
    /\ UNCHANGED <<callVars, reqVars, mainVars, data_sources, ds_properties>>

\* lines 278-296
Pick ==
    /\ rs.pc = "score"
    /\ Len(rs.scored) = Len(rs.candidates)
    /\ rs' = [rs EXCEPT !.pc = "done",
                        !.result = PickResult(rs.scored, required_prop_names)]
    /\ UNCHANGED <<callVars, reqVars, mainVars, data_sources, ds_properties>>

\* a notion_retrieve_database or notion_retrieve_data_source that raises
RetrieveRaises ==
    /\ \/ rs.pc \in {"retrieve_database", "single"}
       \/ rs.pc = "score" /\ Len(rs.scored) < Len(rs.candidates)
    /\ rs' = [rs EXCEPT !.pc = "done", !.result = Raised("NotionHTTPError")]
    /\ UNCHANGED <<callVars, reqVars, mainVars, data_sources, ds_properties>>

NextResolve ==
    RetrieveDatabase \/ RetrieveSingle \/ RetrieveDataSource \/ Pick
        \/ RetrieveRaises

SpecResolve == InitResolve /\ [][NextResolve]_vars

(***************************************************************************)
(* Pipeline (main) against the two Notion data sources                     *)
(*                                                                         *)
(* A page id is the page's position in its data source.  Every HTTP        *)
(* attempt of a notion_request is one step: the server handles the         *)
(* request (or never gets it) and the attempt ends in a reply, a timeout   *)
(* or an error status.  Replies carry well-formed JSON.                    *)
(***************************************************************************)

\* the runs of main
MaxRuns == 3

\* the failed attempts and raises in one behaviour
MaxFaults == 3

\* if len(picked) >= 3: break
MaxPicked == 3

\* the picks of a feed snapshot: up to MaxPicked different links
Snapshots == {[i \in 1..n |-> i] : n \in 0..MaxPicked}

\* the placeholder term ("haeksim yongeo") and a term of the article text
PLACEHOLDER == "haeksim yongeo"
TermTexts == {PLACEHOLDER, "geumri"}

\* what summarize_and_extract_terms may return: two terms, different after
\* _dedupe_preserve unless the second is the padding placeholder
TermPairs ==
    {p \in TermTexts \X TermTexts : p[1] # p[2]}
        \cup {<<PLACEHOLDER, PLACEHOLDER>>}

\* what summarize_and_extract_terms returns to main: two terms, or the
\* placeholder alone (line 439 on a text without token)
SummarizeResults == TermPairs \cup {<<PLACEHOLDER>>}

\* How an attempt ends: a 2xx reply, a timeout before the server saw the
\* request, a timeout after the server applied it, a 4xx status.
ReadOutcomes == {"ok", "timeout", "error_4xx"}
WriteOutcomes == {"ok", "timeout", "timeout_applied", "error_4xx"}

\* a creation may also be answered by a 2xx reply that bears no "id"
CreateOutcomes == WriteOutcomes \cup {"ok_no_id"}

Applied(o) == o \in {"ok", "timeout_applied", "ok_no_id"}

\* the records one POST /pages attempt adds to the data source
Records(o) == IF Applied(o) THEN 1 ELSE 0

\* the attempt's iteration of the retry loop
Reply(st, o) ==
    CASE o = "ok" -> OnResponse(st, 200, "{x}")
      [] o = "ok_no_id" -> OnResponse(st, 200, "{y}")
      [] o = "error_4xx" -> OnResponse(st, 400, "{y}")
      [] OTHER -> OnNetworkError(st, "timed out")

\* results[0].get("id") of a page_size=1 query, 0 for None (no result): the
\* server lists the pages the filter accepts in creation order
FirstOf(hits) == IF hits = {} THEN 0 ELSE CHOOSE i \in hits : \A j \in hits : i <= j

\* notion_find_news_by_url, on the reply
FindNewsByUrl(pages, url) ==
    FirstOf({i \in 1..Len(pages) : pages[i].url = url})

\* notion_find_term_page, on the reply
FindTermPage(pages, term) ==
    FirstOf({i \in 1..Len(pages) : pages[i].term = term})

\* _dedupe_preserve
RECURSIVE DedupePreserve(_)
DedupePreserve(items) ==
    IF items = <<>> THEN <<>>
    ELSE LET front == DedupePreserve(SubSeq(items, 1, Len(items) - 1))
             x == items[Len(items)]
         IN  IF x \in Range(front) THEN front ELSE Append(front, x)

\* notion_get_existing_relation_ids
ExistingRelationIds(page) == DedupePreserve(page.relation)

ExistingNews_Never(existing_news_id) == FALSE

\* if existing_news_id
ExistingNews(existing_news_id) == existing_news_id # 0

\* created_news.get("id"), 0 for None
CreatedId(pages, o) == IF o = "ok_no_id" THEN 0 ELSE Len(pages)

NoId_Accepted(news_page_id) == FALSE

\* if not news_page_id
NoId(news_page_id) == news_page_id = 0

PatchRelation_Union(current, merged) ==
    current \o SelectSeq(merged, LAMBDA x : x \notin Range(current))

\* PATCH /pages/{page_id}: the relation property becomes the one sent
PatchRelation(current, merged) == merged

AlreadyLinked_Never(existing_rel, news_page_id) == FALSE

\* if news_page_id in existing_rel
AlreadyLinked(existing_rel, news_page_id) == news_page_id \in Range(existing_rel)

Merged_Overwrite(existing_rel, news_page_id) == <<news_page_id>>

\* merged = existing_rel + [news_page_id]
Merged(existing_rel, news_page_id) == Append(existing_rel, news_page_id)

\* the loop of line 616 moves to the next picked item, or main ends
NextItem(l) ==
    [IdleRun EXCEPT !.i = l.i + 1,
                    !.pc = IF l.i < Len(picked) THEN "find_news" ELSE "done",
                    !.upserts = l.upserts]

ItemRaised_EndsLoop(l) ==
    [IdleRun EXCEPT !.i = l.i + 1, !.pc = "done", !.upserts = l.upserts]

\* lines 658-662: the except clause, then the next item
ItemRaised(l) == NextItem(l)

\* upsert_term_and_link returns: the loop of line 652 moves on
UpsertReturns(l, pages) ==
    LET done == Append(IF l.k = 1 THEN <<>> ELSE l.upserts,
                       [term |-> l.terms[l.k], news_page_id |-> l.news_page_id,
                        page |-> l.existing_id, read |-> l.existing_rel,
                        posts |-> l.posts, patches |-> l.patches,
                        after |-> pages])
    IN  IF l.k < Len(l.terms)
        THEN [l EXCEPT !.k = 2, !.pc = "find_term", !.existing_id = 0,
                       !.existing_rel = <<>>, !.req = NewRequest,
                       !.posts = 0, !.patches = 0, !.created = 0,
                       !.upserts = done]
        ELSE NextItem([l EXCEPT !.upserts = done])

Fault(o) == IF o = "ok" THEN 0 ELSE 1

\* An attempt of run r's current notion_request ends as o: the call returns
\* (the locals become `returns`, unless the caller raises on what it got),
\* raises (the except clause of line 658) or goes on to its next attempt.
AttemptChecked(r, l, o, returns, raises) ==
    LET st == Reply(l.req, o)
        raised == st.status = "raised" \/ (st.status = "returned" /\ raises)
    IN
    /\ faults + Fault(o) <= MaxFaults
    /\ faults' = faults + Fault(o)
    /\ run' = [run EXCEPT ![r] =
                 IF raised THEN ItemRaised(l)
                 ELSE IF st.status = "returned" THEN returns
                 ELSE [l EXCEPT !.req = st]]
    /\ errors' = [errors EXCEPT !.item = @ + (IF raised THEN 1 ELSE 0)]

Attempt(r, l, o, returns) == AttemptChecked(r, l, o, returns, FALSE)

Init ==
    /\ RequestIdle
    /\ ResolveIdle
    /\ CallsIdle
    /\ news_pages = <<>>
    /\ term_pages = <<>>
    /\ picked \in Snapshots
    /\ run = [r \in Runs |-> IdleRun]
    /\ runs_done = 0
    /\ faults = 0
    /\ errors = [item |-> 0, main |-> 0]

\* lines 581-613: the schemas resolve and the feeds are fetched and picked
StartRun(r) ==
    /\ run[r].pc = "idle"
    /\ runs_done < MaxRuns
    /\ run' = [run EXCEPT ![r] =
                 [IdleRun EXCEPT !.i = 1,
                     !.pc = IF Len(picked) = 0 THEN "done" ELSE "find_news"]]
    /\ UNCHANGED <<callVars, reqVars, resVars, news_pages, term_pages, picked, runs_done,
                   faults, errors>>

\* lines 584-597: a resolution or a feed fetch raises, main ends on it
MainRaises(r) ==
    /\ run[r].pc = "idle"
    /\ runs_done < MaxRuns
    /\ faults < MaxFaults
    /\ faults' = faults + 1
    /\ runs_done' = runs_done + 1
    /\ errors' = [errors EXCEPT !.main = @ + 1]
    /\ UNCHANGED <<callVars, reqVars, resVars, news_pages, term_pages, picked, run>>

\* line 618: an attempt of notion_find_news_by_url; lines 619-621
FindNews(r) ==
    /\ run[r].pc = "find_news"
    /\ \E o \in ReadOutcomes :
          LET l == run[r]
              existing_news_id == FindNewsByUrl(news_pages, picked[l.i])
              returns == IF ExistingNews(existing_news_id)
                         THEN NextItem(l)
                         ELSE [l EXCEPT !.pc = "summarize", !.req = NewRequest]
          IN  Attempt(r, l, o, returns)
    /\ UNCHANGED <<callVars, reqVars, resVars, news_pages, term_pages, picked, runs_done>>

\* lines 623-629: summarize_and_extract_terms returns its terms
Summarize(r) ==
    /\ run[r].pc = "summarize"
    /\ \E terms \in SummarizeResults :
          run' = [run EXCEPT ![r] = [@ EXCEPT !.pc = "create_news",
                                              !.terms = terms]]
    /\ UNCHANGED <<callVars, reqVars, resVars, news_pages, term_pages, picked, runs_done,
                   faults, errors>>

\* lines 623-628: summarize_and_extract_terms raises (openai_chat_json)
SummarizeRaises(r) ==
    /\ run[r].pc = "summarize"
    /\ faults < MaxFaults
    /\ faults' = faults + 1
    /\ run' = [run EXCEPT ![r] = ItemRaised(run[r])]
    /\ errors' = [errors EXCEPT !.item = @ + 1]
    /\ UNCHANGED <<callVars, reqVars, resVars, news_pages, term_pages, picked, runs_done>>

\* lines 644-649: an attempt of notion_create_page for the article, then
\* the test of the id it got
CreateNews(r) ==
    /\ run[r].pc = "create_news"
    /\ \E o \in CreateOutcomes :
          LET l == [run[r] EXCEPT !.created = @ + Records(o)]
              pages == IF Applied(o)
                       THEN Append(news_pages, [url |-> picked[l.i]])
                       ELSE news_pages
              news_page_id == CreatedId(pages, o)
              returns == [l EXCEPT !.pc = "find_term", !.k = 1,
                                   !.news_page_id = news_page_id,
                                   !.req = NewRequest, !.created = 0]
          IN  /\ news_pages' = pages
              /\ AttemptChecked(r, l, o, returns, NoId(news_page_id))
    /\ UNCHANGED <<callVars, reqVars, resVars, term_pages, picked, runs_done>>

\* line 552: an attempt of notion_find_term_page; line 553
FindTerm(r) ==
    /\ run[r].pc = "find_term"
    /\ \E o \in ReadOutcomes :
          LET l == run[r]
              existing_id == FindTermPage(term_pages, l.terms[l.k])
              returns == [l EXCEPT !.existing_id = existing_id,
                             !.req = NewRequest,
                             !.pc = IF existing_id = 0 THEN "create_term"
                                    ELSE "retrieve_page"]
          IN  Attempt(r, l, o, returns)
    /\ UNCHANGED <<callVars, reqVars, resVars, news_pages, term_pages, picked, runs_done>>

\* lines 554-561: an attempt of notion_create_page for the term
CreateTerm(r) ==
    /\ run[r].pc = "create_term"
    /\ \E o \in WriteOutcomes :
          LET l == [run[r] EXCEPT !.posts = @ + 1, !.created = @ + Records(o)]
              pages == IF Applied(o)
                       THEN Append(term_pages,
                                [term |-> l.terms[l.k],
                                 relation |-> <<l.news_page_id>>])
                       ELSE term_pages
          IN  /\ term_pages' = pages
              /\ Attempt(r, l, o, UpsertReturns(l, pages))
    /\ UNCHANGED <<callVars, reqVars, resVars, news_pages, picked, runs_done>>

\* lines 564-568: an attempt of notion_retrieve_page, then the membership test
RetrievePage(r) ==
    /\ run[r].pc = "retrieve_page"
    /\ \E o \in ReadOutcomes :
          LET l == run[r]
              existing_rel == ExistingRelationIds(term_pages[l.existing_id])
              returns == IF AlreadyLinked(existing_rel, l.news_page_id)
                         THEN UpsertReturns(l, term_pages)
                         ELSE [l EXCEPT !.existing_rel = existing_rel,
                                        !.req = NewRequest, !.pc = "update_page"]
          IN  Attempt(r, l, o, returns)
    /\ UNCHANGED <<callVars, reqVars, resVars, news_pages, term_pages, picked, runs_done>>

\* lines 570-572: an attempt of notion_update_page
UpdatePage(r) ==
    /\ run[r].pc = "update_page"
    /\ \E o \in WriteOutcomes :
          LET l == [run[r] EXCEPT !.patches = @ + 1]
              pages == IF Applied(o)
                       THEN [term_pages EXCEPT ![l.existing_id].relation =
                                PatchRelation(@, Merged(l.existing_rel,
                                                         l.news_page_id))]
                       ELSE term_pages
          IN  /\ term_pages' = pages
              /\ Attempt(r, l, o, UpsertReturns(l, pages))
    /\ UNCHANGED <<callVars, reqVars, resVars, news_pages, picked, runs_done>>

\* line 664: main ends
Done(r) ==
    /\ run[r].pc = "done"
    /\ run' = [run EXCEPT ![r] = [IdleRun EXCEPT !.upserts = run[r].upserts]]
    /\ runs_done' = runs_done + 1
    /\ UNCHANGED <<callVars, reqVars, resVars, news_pages, term_pages, picked, faults,
                   errors>>

RunStep(r) ==
    \/ StartRun(r)
    \/ MainRaises(r)
    \/ FindNews(r)
    \/ Summarize(r)
    \/ SummarizeRaises(r)
    \/ CreateNews(r)
    \/ FindTerm(r)
    \/ CreateTerm(r)
    \/ RetrievePage(r)
    \/ UpdatePage(r)
    \/ Done(r)

\* the runs do not overlap: one run at a time
Next == RunStep(1)

Spec == Init /\ [][Next]_vars

\* the items picked from the snapshot two overlapping runs work on
MaxOverlapPicked == 1

\* Two scheduled invocations of main overlap on one feed snapshot: the
\* second starts before the first has ended and their steps interleave.
\* An earlier run left the article of a link the feed no longer holds
\* (link 0) and the page of its term.  The two runs are the last ones, and
\* the transport fails none of their requests.
InitOverlap ==
    /\ RequestIdle
    /\ ResolveIdle
    /\ CallsIdle
    /\ news_pages = <<[url |-> 0]>>
    /\ term_pages = <<[term |-> PLACEHOLDER, relation |-> <<1>>]>>
    /\ picked \in {sn \in Snapshots : Len(sn) <= MaxOverlapPicked}
    /\ run = [r \in Runs |-> IdleRun]
    /\ runs_done = MaxRuns - 1
    /\ faults = MaxFaults
    /\ errors = [item |-> 0, main |-> 0]

OverlapStep(r) ==
    \/ StartRun(r)
    \/ FindNews(r)
    \/ Summarize(r)
    \/ CreateNews(r)
    \/ FindTerm(r)
    \/ CreateTerm(r)
    \/ RetrievePage(r)
    \/ UpdatePage(r)
    \/ Done(r)

NextOverlap == \E r \in Runs : OverlapStep(r)

SpecOverlap == InitOverlap /\ [][NextOverlap]_vars

(***************************************************************************)
(* summarize_and_extract_terms: the terms it returns                       *)
(*                                                                         *)
(* The texts are short: _compact never truncates them.                     *)
(***************************************************************************)

\* the longest token list and the longest "terms" list of the JSON answer
MaxTerms == 3

\* what line 433 finds in the title and snippet: tokens of two characters
\* or more, without white space
Tokens == {"geumri", "hwanyul", PLACEHOLDER}

\* the elements of the "terms" list of the JSON answer: null or a string
RawTerms ==
    {None} \cup {[str |-> t] : t \in {"", " ", "geumri", " geumri", "hwanyul"}}

\* sequences of at most n elements of S
SeqsUpTo(S, n) == UNION {[1..k -> S] : k \in 0..n}

\* s[:n]
Take(s, n) == SubSeq(s, 1, Min(n, Len(s)))

\* _compact on these texts: white space collapsed and stripped
Compact(t) ==
    CASE t = " " -> ""
      [] t = " geumri" -> "geumri"
      [] OTHER -> t

\* str(t or "")
TermValue(t) == IF t = None THEN "" ELSE t.str

NonEmpty(terms) == SelectSeq(terms, LAMBDA t : Compact(t) # "")

\* lines 435-440: the fallback path, on the tokens of line 434
FallbackTerms(toks) ==
    LET deduped == DedupePreserve(toks)
        two == IF Len(deduped) >= 2 THEN Take(deduped, 2)
               ELSE Take(deduped \o <<"", "">>, 2)
        stripped == NonEmpty(two)
        terms == IF Len(stripped) < 2
                 THEN Take(stripped \o <<PLACEHOLDER>>, 2)
                 ELSE stripped
    IN  Take(terms, 2)

\* while len(terms) < 2: terms.append(placeholder)
RECURSIVE PadToTwo(_)
PadToTwo(terms) ==
    IF Len(terms) < 2 THEN PadToTwo(Append(terms, PLACEHOLDER)) ELSE terms

\* lines 466-479: the OpenAI path, on out.get("terms")
OpenAITerms(out_terms) ==
    LET terms_raw == IF out_terms.kind = "list" THEN out_terms.items ELSE <<>>
        compacted == [i \in 1..Len(terms_raw) |->
                         Compact(TermValue(terms_raw[i]))]
        terms == Take(DedupePreserve(NonEmpty(compacted)), 2)
    IN  Take(PadToTwo(terms), 2)

\* out.get("terms"): absent or null, a value that is not a list, a list
OutTerms ==
    {[kind |-> "absent", items |-> <<>>], [kind |-> "not_list", items |-> <<>>]}
        \cup {[kind |-> "list", items |-> items] :
                  items \in SeqsUpTo(RawTerms, MaxTerms)}

InitSummarize ==
    /\ RequestIdle
    /\ ResolveIdle
    /\ MainIdle
    /\ TitleIdle
    /\ PickIdle
    /\ \/ \E toks \in SeqsUpTo(Tokens, MaxTerms) :
             sm = [pc |-> "call", OPENAI_API_KEY |-> FALSE, toks |-> toks,
                   out_terms |-> None, terms |-> <<>>]
       \/ \E out_terms \in OutTerms :
             sm = [pc |-> "call", OPENAI_API_KEY |-> TRUE, toks |-> <<>>,
                   out_terms |-> out_terms, terms |-> <<>>]

\* lines 428-440
SummarizeFallback ==
    /\ sm.pc = "call"
    /\ ~sm.OPENAI_API_KEY
    /\ sm' = [sm EXCEPT !.pc = "returned", !.terms = FallbackTerms(sm.toks)]
    /\ UNCHANGED <<reqVars, resVars, mainVars, tf, all_items, pk>>

\* lines 464-479
SummarizeOpenAI ==
    /\ sm.pc = "call"
    /\ sm.OPENAI_API_KEY
    /\ sm' = [sm EXCEPT !.pc = "returned", !.terms = OpenAITerms(sm.out_terms)]
    /\ UNCHANGED <<reqVars, resVars, mainVars, tf, all_items, pk>>

\* line 464: openai_chat_json raises
OpenAIRaises ==
    /\ sm.pc = "call"
    /\ sm.OPENAI_API_KEY
    /\ sm' = [sm EXCEPT !.pc = "raised"]
    /\ UNCHANGED <<reqVars, resVars, mainVars, tf, all_items, pk>>

NextSummarize == SummarizeFallback \/ SummarizeOpenAI \/ OpenAIRaises

SpecSummarize == InitSummarize /\ [][NextSummarize]_vars

\* C14: whenever summarize_and_extract_terms returns, on either path, it
\* returns exactly two terms and neither is empty.
C14_TwoNonEmptyTerms ==
    sm.pc = "returned" =>
        /\ Len(sm.terms) = 2
        /\ \A i \in 1..Len(sm.terms) : sm.terms[i] # ""

\* what main gets for texts whose tokens are among TermTexts
PipelineTermsCovered ==
    (sm.pc = "returned" /\ Range(sm.terms) \subseteq TermTexts)
        => sm.terms \in SummarizeResults

(***************************************************************************)
(* The title writes and exact-title lookups of the pipeline, against a     *)
(* resolved schema                                                         *)
(***************************************************************************)

\* field names: "yongeo" (term), "jemok" (title), and two others
FieldNames == {"yongeo", "jemok", "ireum", "memo"}

FieldKinds == {"absent", "title", "rich_text", "relation"}

\* a schema gives each name its kind; exactly one field is of kind title
Schemas ==
    {sch \in [FieldNames -> FieldKinds] :
        Cardinality({f \in FieldNames : sch[f] = "title"}) = 1}

\* the lookup of line 527-528, the write of line 555, the write of line 636
TitleOps == {"find_term", "create_term", "create_news"}

\* the property each of them names in its filter or property map
TitleProperty(op) ==
    CASE op = "find_term" -> "yongeo"
      [] op = "create_term" -> "yongeo"
      [] op = "create_news" -> "jemok"

InitTitle ==
    /\ RequestIdle
    /\ ResolveIdle
    /\ MainIdle
    /\ SummarizeIdle
    /\ PickIdle
    /\ \E op \in TitleOps, sch \in Schemas :
          tf = [pc |-> "call", op |-> op, schema |-> sch, property |-> "",
                status |-> 0]

\* the request is built: a title filter, or a title value, on the property
SendTitleOp ==
    /\ tf.pc = "call"
    /\ tf' = [tf EXCEPT !.pc = "sent", !.property = TitleProperty(tf.op)]
    /\ UNCHANGED <<reqVars, resVars, mainVars, sm, all_items, pk>>

\* the server takes a title filter or value on the field of kind title and
\* answers 400 (validation error) on any other
ServerAnswers ==
    /\ tf.pc = "sent"
    /\ tf' = [tf EXCEPT !.pc = "answered",
                        !.status = IF tf.schema[tf.property] = "title"
                                   THEN 200 ELSE 400]
    /\ UNCHANGED <<reqVars, resVars, mainVars, sm, all_items, pk>>

NextTitle == SendTitleOp \/ ServerAnswers

SpecTitle == InitTitle /\ [][NextTitle]_vars

\* the field name the pipeline expects for the operation's title
ExpectedName(op) == IF op = "create_news" THEN "jemok" ELSE "yongeo"

\* C15: when the field of the expected name ("jemok" for articles, "yongeo"
\* for terms) exists in the schema without being of kind title, and another
\* field is, the title write or exact-title lookup is made on that other
\* field, the one of kind title.
C15_TitleFieldFallback ==
    (/\ tf.pc \in {"sent", "answered"}
     /\ tf.schema[ExpectedName(tf.op)] \notin {"absent", "title"}
     /\ \E f \in FieldNames : tf.schema[f] = "title")
        => tf.schema[tf.property] = "title"

(***************************************************************************)
(* main, lines 599-613: the sort of the fetched items and the pick         *)
(***************************************************************************)

\* the most items the feeds return
MaxItems == 4

Links == 1..4

\* publish times; 0 stands for None (no pubDate, or one that does not parse)
Times == 1..2

\* the clock when the sort reads it: feed time 1 is past, 2 is ahead
NowTime == 1

RSSItems == [link : Links, published : Times \cup {0}]

SortKey_Ascending(item, j, ticking) ==
    IF item.published # 0 THEN 0 - 100 * item.published
    ELSE 0 - (100 * NowTime + 50 + (IF ticking THEN j ELSE 0))

\* key=lambda x: x.published or datetime.now(timezone.utc), for the j-th
\* item of the list: the clock is read once per item without publish time,
\* and it either advances between two readings or does not
SortKey(item, j, ticking) ==
    IF item.published # 0 THEN 100 * item.published
    ELSE 100 * NowTime + 50 + (IF ticking THEN j ELSE 0)

\* all_items.sort(key=..., reverse=True): stable, as the stable ascending
\* sort on the negated key; the keys stay with their items
SortedItems(items, ticking) ==
    Sorted([j \in 1..Len(items) |->
               [key |-> <<0 - SortKey(items[j], j, ticking), <<>>>>,
                item |-> items[j]]])

\* lines 603-611, from position j of the sorted list on: the positions picked
RECURSIVE PickFrom(_, _, _, _)
PickFrom(items, j, picked_at, seen_links) ==
    IF j > Len(items) THEN picked_at
    ELSE IF items[j].link \in seen_links
         THEN PickFrom(items, j + 1, picked_at, seen_links)
         ELSE LET now_picked == Append(picked_at, j) IN
              IF Len(now_picked) >= MaxPicked THEN now_picked
              ELSE PickFrom(items, j + 1, now_picked,
                            seen_links \cup {items[j].link})

InitPick ==
    /\ RequestIdle
    /\ ResolveIdle
    /\ MainIdle
    /\ SummarizeIdle
    /\ TitleIdle
    /\ all_items \in SeqsUpTo(RSSItems, MaxItems)
    /\ \E ticking \in BOOLEAN :
          pk = [pc |-> "fetched", ticking |-> ticking, fetched |-> all_items,
                keys |-> <<>>, picked |-> <<>>]

\* line 600: the list is sorted in place
SortItems ==
    /\ pk.pc = "fetched"
    /\ LET sorted == SortedItems(all_items, pk.ticking) IN
       /\ all_items' = [j \in 1..Len(sorted) |-> sorted[j].item]
       /\ pk' = [pk EXCEPT !.pc = "sorted",
                           !.keys = [j \in 1..Len(sorted) |-> 0 - sorted[j].key[1]]]
    /\ UNCHANGED <<reqVars, resVars, mainVars, sm, tf>>

\* lines 603-613: picked holds the items at these positions of all_items
PickItems ==
    /\ pk.pc = "sorted"
    /\ pk' = [pk EXCEPT !.pc = "picked",
                        !.picked = PickFrom(all_items, 1, <<>>, {})]
    /\ UNCHANGED <<reqVars, resVars, mainVars, sm, tf, all_items>>

NextPick == SortItems \/ PickItems

SpecPick == InitPick /\ [][NextPick]_vars

\* the item at a position of the sorted list and the time it was sorted by:
\* its publish time, or the clock's when it has none
ItemAt(j) == all_items[j]
TimeAt(j) == pk.keys[j]

PickedAt == Range(pk.picked)
PickedLinks == {ItemAt(j).link : j \in PickedAt}
FetchedLinks == {pk.fetched[j].link : j \in 1..Len(pk.fetched)}

\* C16: main picks at most 3 of the fetched items (3, or one per link when
\* the items hold fewer links), of pairwise different links, in descending
\* order of publish time, and no item left out whose link is none of the
\* picked ones has a later publish time than a picked item.  (An item
\* without publish time counts with the time the sort read off the clock.)
C16_ItemSelection ==
    pk.pc = "picked" =>
        /\ Len(pk.picked) <= 3
        /\ Len(pk.picked) = Min(3, Cardinality(FetchedLinks))
        /\ PickedAt \subseteq 1..Len(all_items)
        /\ \A j \in 1..Len(all_items) :
              Cardinality({k \in 1..Len(all_items) : all_items[k] = ItemAt(j)})
                  = Cardinality({k \in 1..Len(pk.fetched) :
                                    pk.fetched[k] = ItemAt(j)})
        /\ \A a, b \in 1..Len(pk.picked) :
              a < b =>
                 /\ ItemAt(pk.picked[a]).link # ItemAt(pk.picked[b]).link
                 /\ TimeAt(pk.picked[a]) >= TimeAt(pk.picked[b])
        /\ \A j \in 1..Len(all_items) :
              (ItemAt(j).published # 0 => TimeAt(j) = 100 * ItemAt(j).published)
        /\ \A j \in (1..Len(all_items)) \ PickedAt :
              ItemAt(j).link \notin PickedLinks =>
                 \A p \in PickedAt : ~(TimeAt(j) > TimeAt(p))

\* four items of four links fetched oldest first, the third without publish
\* time: the three latest are picked, latest first, and one of the two
\* oldest is left out
C16_Witness ==
    /\ pk.pc = "picked"
    /\ Len(pk.fetched) = 4
    /\ Cardinality(FetchedLinks) = 4
    /\ pk.fetched[1].published = 1 /\ pk.fetched[2].published = 1
    /\ pk.fetched[3].published = 0 /\ pk.fetched[4].published = 2
    /\ Len(pk.picked) = 3
    /\ ItemAt(pk.picked[1]) = pk.fetched[4]
    /\ ItemAt(pk.picked[2]) = pk.fetched[3]
    /\ ItemAt(pk.picked[3]) = pk.fetched[1]

(***************************************************************************)
(* Properties of the pipeline                                              *)
(***************************************************************************)

\* the article pages that hold a link
PagesOfUrl(url) == {p \in 1..Len(news_pages) : news_pages[p].url = url}

\* C1: once a run has ended, and with no run or item having raised, the
\* news data source holds exactly one page per picked link.
C1_OnePagePerUrl ==
    (runs_done >= 1 /\ run[1].pc = "idle" /\ errors = [item |-> 0, main |-> 0])
        => \A i \in 1..Len(picked) : Cardinality(PagesOfUrl(picked[i])) = 1

NoDuplicates(rel) == \A i, j \in 1..Len(rel) : rel[i] = rel[j] => i = j

\* C2: in every step of non-overlapping runs each term page keeps the
\* article ids its relation holds, and no relation holds an id twice.
C2_RelationGrows ==
    [][\A p \in 1..Len(term_pages') :
          /\ NoDuplicates(term_pages'[p].relation)
          /\ p <= Len(term_pages) =>
                Range(term_pages[p].relation) \subseteq Range(term_pages'[p].relation)
      ]_vars

\* a second article has been merged into a term page's relation
C2_Witness ==
    \E p \in 1..Len(term_pages) : Len(term_pages[p].relation) = 2

\* the two upsert_term_and_link calls of an item were made with the same term
\* and article
SameUpsertTwice(u) ==
    /\ Len(u) = 2
    /\ u[1].term = u[2].term
    /\ u[1].news_page_id = u[2].news_page_id

\* C3: when upsert_term_and_link has returned twice in sequence for the same
\* term and article, the second call has sent no PATCH (and no POST) and
\* every term page's relation set is what the first call left.
C3_MergeIdempotent ==
    \A r \in Runs :
        LET u == run[r].upserts IN
        SameUpsertTwice(u) =>
            /\ u[2].patches = 0
            /\ u[2].posts = 0
            /\ Len(u[2].after) = Len(u[1].after)
            /\ \A p \in 1..Len(u[1].after) :
                  Range(u[2].after[p].relation) = Range(u[1].after[p].relation)

\* the first of the two calls merged the article into an existing term page
C3_Witness ==
    \E r \in Runs :
        /\ SameUpsertTwice(run[r].upserts)
        /\ run[r].upserts[1].patches = 1
        /\ run[r].upserts[2].patches = 0

\* the steps of one item: lines 618-656
ItemSteps ==
    {"find_news", "summarize", "create_news", "find_term", "create_term",
     "retrieve_page", "update_page"}

\* the step keeps every record there is: each article page as it is, each
\* term page with its term and the links it holds
NoRollback ==
    /\ Len(news_pages') >= Len(news_pages)
    /\ \A p \in 1..Len(news_pages) : news_pages'[p] = news_pages[p]
    /\ Len(term_pages') >= Len(term_pages)
    /\ \A p \in 1..Len(term_pages) :
          /\ term_pages'[p].term = term_pages[p].term
          /\ Range(term_pages[p].relation) \subseteq Range(term_pages'[p].relation)

\* a step of run r in which a step of its current item raises
ItemRaises(r) == run'[r] # run[r] /\ errors'.item = errors.item + 1

\* how far a step of an item is from the item's end
StepRank(l) ==
    LET upsert == CASE l.pc = "find_term" -> 3
                    [] l.pc = "retrieve_page" -> 2
                    [] OTHER -> 1
    IN  CASE l.pc = "find_news" -> 9
          [] l.pc = "summarize" -> 8
          [] l.pc = "create_news" -> 7
          [] OTHER -> upsert + (IF l.k = 1 THEN 3 ELSE 0)

\* what is left of a run: items, then steps of the item, then attempts of
\* the request
Remaining(l) ==
    IF l.pc \in ItemSteps
    THEN (Len(picked) - l.i) * 50 + StepRank(l) * 5 + (4 - l.req.attempt)
    ELSE 0

\* C13: a step in which one of the steps of item i raises leaves every record
\* in place, does not end main nor count as main's exception, and takes the
\* loop to item i+1 (to the end of main after the last item); the loop visits
\* the picked items one by one and main ends only past the last of them; a
\* run inside the loop can always take a step, and each step brings it
\* closer to the end of main, which it therefore reaches.
C13_FailureIsolated ==
    /\ [][\A r \in Runs :
            /\ ItemRaises(r) =>
                  /\ run[r].pc \in ItemSteps
                  /\ NoRollback
                  /\ errors'.main = errors.main
                  /\ runs_done' = runs_done
                  /\ run'[r].i = run[r].i + 1
                  /\ run'[r].pc = IF run[r].i < Len(picked) THEN "find_news"
                                  ELSE "done"
            /\ (run[r].pc \in ItemSteps /\ run'[r] # run[r]) =>
                  /\ run[r].i \in 1..Len(picked)
                  /\ \/ run'[r].i = run[r].i /\ run'[r].pc \in ItemSteps
                     \/ /\ run'[r].i = run[r].i + 1
                        /\ run'[r].pc = IF run[r].i < Len(picked)
                                        THEN "find_news" ELSE "done"
            /\ (run[r].pc = "done" /\ run'[r] # run[r]) =>
                  /\ run[r].i = Len(picked) + 1 \/ Len(picked) = 0
                  /\ runs_done' = runs_done + 1
                  /\ errors' = errors
            /\ (run[r].pc \in ItemSteps /\ run'[r] # run[r]) =>
                  Remaining(run'[r]) < Remaining(run[r])
       ]_vars
    /\ [](run[1].pc \in ItemSteps \cup {"done"} => ENABLED Next)

\* the first item raised after its article page was created (no term page
\* links it) and the loop is at the second item
C13_Witness ==
    /\ runs_done = 0
    /\ errors = [item |-> 1, main |-> 0]
    /\ run[1].pc = "find_news" /\ run[1].i = 2
    /\ PagesOfUrl(picked[1]) = {1}
    /\ term_pages = <<>>

\* the last upsert_term_and_link that returned in run r
Upserted(r) == run[r].upserts # <<>>
LastUpsert(r) == run[r].upserts[Len(run[r].upserts)]

\* The last upserts of runs r and s both merged (one successful PATCH each)
\* different articles onto the same existing term page, and each had read
\* the page before the other wrote: neither read holds the other's article.
BothMergedFromStaleReads(r, s) ==
    /\ r # s /\ Upserted(r) /\ Upserted(s)
    /\ LET ur == LastUpsert(r)
           us == LastUpsert(s)
       IN  /\ ur.page # 0 /\ ur.page = us.page
           /\ ur.patches = 1 /\ us.patches = 1
           /\ ur.news_page_id # us.news_page_id
           /\ ur.news_page_id \notin Range(us.read)
           /\ us.news_page_id \notin Range(ur.read)

\* C17: when two overlapping runs have each completed upsert_term_and_link
\* for the same existing term with different articles, both having read the
\* term before either wrote, each PATCH left the relation without the other
\* run's article: the later write dropped the earlier one's link.  (The
\* witness is the interleaving itself, reached with both runs ended.)
C17_LostUpdate ==
    \A r, s \in Runs :
        BothMergedFromStaleReads(r, s) =>
            LET ur == LastUpsert(r)
                us == LastUpsert(s)
            IN  /\ us.news_page_id \notin Range(ur.after[ur.page].relation)
                /\ ur.news_page_id \notin Range(us.after[us.page].relation)
                /\ Range(ur.after[ur.page].relation)
                       = Range(ur.read) \cup {ur.news_page_id}

\* both runs have ended, both upserts returned after their PATCH, and the
\* term page holds the article of one run only
C17_Witness ==
    /\ BothMergedFromStaleReads(1, 2)
    /\ run[1].pc = "idle" /\ run[2].pc = "idle"
    /\ runs_done = MaxRuns + 1
    /\ errors = [item |-> 0, main |-> 0]
    /\ LET p == LastUpsert(1).page IN
       /\ LastUpsert(2).news_page_id \in Range(term_pages[p].relation)
       /\ LastUpsert(1).news_page_id \notin Range(term_pages[p].relation)

\* the steps of upsert_term_and_link
UpsertSteps == {"find_term", "create_term", "retrieve_page", "update_page"}

\* C18: while a run is in upsert_term_and_link for an item, the article id
\* it links is not empty and is the id of an existing article record, the
\* one created for that item's link; and every article id in the relation
\* of any term record is the id of an existing article record.
C18_ReferentialIntegrity ==
    /\ \A r \in Runs :
          run[r].pc \in UpsertSteps =>
             /\ run[r].news_page_id \in 1..Len(news_pages)
             /\ news_pages[run[r].news_page_id].url = picked[run[r].i]
    /\ \A p \in 1..Len(term_pages) :
          /\ term_pages[p].relation # <<>>
          /\ \A a \in Range(term_pages[p].relation) : a \in 1..Len(news_pages)

\* the second item's article is linked by a term page created for it, and
\* the run is at that item's second term
C18_Witness ==
    /\ Len(picked) >= 2
    /\ run[1].pc = "find_term" /\ run[1].i = 2 /\ run[1].k = 2
    /\ news_pages[run[1].news_page_id].url = picked[2]
    /\ \E p \in 1..Len(term_pages) :
          term_pages[p].relation = <<run[1].news_page_id>>

\* C19: in non-overlapping runs the terms data source never holds two
\* records with the same term text; a term's record is created with exactly
\* the article of its first occurrence and later occurrences are merged onto
\* it.
C19_OneRecordPerTerm ==
    \A p, q \in 1..Len(term_pages) :
        term_pages[p].term = term_pages[q].term => p = q

\* an article record for the link of the run's current item exists
ArticleExists(r) ==
    /\ run[r].pc = "find_news"
    /\ FindNewsByUrl(news_pages, picked[run[r].i]) # 0

\* the article ids the step adds to the relation of term page p
LinksAdded(p) ==
    IF p <= Len(term_pages)
    THEN Range(term_pages'[p].relation) \ Range(term_pages[p].relation)
    ELSE Range(term_pages'[p].relation)

\* C20: a step of an item whose article record exists changes no article
\* or term record and never leads to the summarization or a creation for that
\* item: the loop stays at the query (a retry) or moves to the next item.  No
\* step changes an article record; a run links only the article it has just
\* created for its current item, whose id it gets from that creation alone:
\* so the links an article lacks after the run that created it failed are
\* added by no later step.
C20_SkipLeavesUnchanged ==
    [][\A r \in Runs :
          /\ (ArticleExists(r) /\ run'[r] # run[r]) =>
                /\ news_pages' = news_pages
                /\ term_pages' = term_pages
                /\ \/ run'[r].pc = "find_news" /\ run'[r].i = run[r].i
                   \/ /\ run'[r].i = run[r].i + 1
                      /\ run'[r].pc \in {"find_news", "done"}
          /\ \A p \in 1..Len(news_pages) : news_pages'[p] = news_pages[p]
          /\ run'[r].news_page_id \notin {0, run[r].news_page_id} =>
                /\ run[r].pc = "create_news"
                /\ Len(news_pages') = Len(news_pages) + 1
                /\ run'[r].news_page_id = Len(news_pages')
          /\ run'[r] # run[r] =>
                \A p \in 1..Len(term_pages') :
                    \A a \in LinksAdded(p) :
                        /\ run[r].pc \in {"create_term", "update_page"}
                        /\ a = run[r].news_page_id
      ]_vars

\* the first run created the first item's article and failed before linking
\* it; the second run has passed that item, and the article is still the
\* only one of its link and still linked by no term
C20_Witness ==
    /\ runs_done = 1
    /\ errors = [item |-> 1, main |-> 0]
    /\ Len(picked) >= 2
    /\ run[1].pc = "find_news" /\ run[1].i = 2
    /\ PagesOfUrl(picked[1]) = {1}
    /\ \A p \in 1..Len(term_pages) : 1 \notin Range(term_pages[p].relation)

\* the steps that are attempts of a notion_create_page call
CreateSteps == {"create_news", "create_term"}

\* the records the step adds to the two data sources
RecordsAdded ==
    (Len(news_pages') - Len(news_pages)) + (Len(term_pages') - Len(term_pages))

\* C21: in every attempt of a notion_create_page call, the records the call
\* has created in its earlier attempts and the records this attempt creates
\* are together at most one, retried attempts included.
C21_CreateAtMostOnce ==
    [][\A r \in Runs :
          (run[r].pc \in CreateSteps /\ run'[r] # run[r]) =>
              run[r].created + RecordsAdded <= 1
      ]_vars

\* C22: when two runs overlap on one feed snapshot, in every reachable state
\* the news data source holds at most one article record per picked link.
C22_OverlapOnePagePerUrl ==
    \A i \in 1..Len(picked) : Cardinality(PagesOfUrl(picked[i])) <= 1

(***************************************************************************)
(* Properties of resolve_data_source_id_by_schema                          *)
(***************************************************************************)

\* the listed entries that are child schemas (entry i has id i)
ChildSchemas == {i \in 1..Len(data_sources) : data_sources[i].id # 0}

RequiredSet == {"yongeo", "uimi", "gwanryeon gisa"}

\* the child schemas that hold every required field
FullMatches == {i \in ChildSchemas : RequiredSet \subseteq ds_properties[i]}

NameOf(i) == data_sources[i].name

\* the call is over and every retrieve it made was answered
Resolved == rs.pc = "done" /\ rs.result # Raised("NotionHTTPError")

\* ascending (name length, name)
NameOrderLE(a, b) ==
    \/ Len(a) < Len(b)
    \/ Len(a) = Len(b) /\ ~StrLess(b, a)

\* C4: with two or more child schemas of which exactly one holds every
\* required field, the call (every retrieve of which was answered) returns
\* that schema's id, whatever the other candidates hold, are named or where
\* they are listed.
C4_FullMatchPriority ==
    (Resolved /\ Cardinality(ChildSchemas) >= 2 /\ Cardinality(FullMatches) = 1)
        => \E i \in FullMatches : rs.result = [kind |-> "return", id |-> i]

\* the full match is listed second, after a partial match of a shorter name
\* that lacks one field
C4_Witness ==
    /\ Resolved
    /\ ChildSchemas = {1, 2} /\ FullMatches = {2}
    /\ Cardinality(ds_properties[1] \cap RequiredSet) = 2
    /\ NameOf(1) = <<65>> /\ NameOf(2) = <<65, 66>>
    /\ rs.result = [kind |-> "return", id |-> 2]

Permuted(p) == [i \in 1..Len(data_sources) |-> data_sources[p[i]]]

\* the schema id a result returns, 0 for a raise
ReturnedId(result) == IF result.kind = "return" THEN result.id ELSE 0

\* C6 as stated: the call's result is a function of the child schemas and the
\* required fields, the same whatever order the parent lists the schemas in.
C6_OrderIndependent ==
    Resolved =>
        \A p \in Permutations(1..Len(data_sources)) :
            ReturnedId(ResolveOf(Permuted(p), ds_properties, required_prop_names))
                = ReturnedId(rs.result)

DistinctFullNames ==
    \A i, j \in FullMatches : i # j => NameOf(i) # NameOf(j)

\* C6 amended: the call's result is a function of the listing, the schemas
\* and the required fields, and it is the same whatever order the parent
\* lists the schemas in provided no two full matches bear the same name.
C6_Deterministic ==
    Resolved =>
        /\ rs.result = ResolveOf(data_sources, ds_properties, required_prop_names)
        /\ DistinctFullNames =>
              \A p \in Permutations(1..Len(data_sources)) :
                  ReturnedId(ResolveOf(Permuted(p), ds_properties,
                                       required_prop_names))
                      = ReturnedId(rs.result)

\* two full matches of different names, the one returned listed last
C6_Witness ==
    /\ Resolved
    /\ Cardinality(FullMatches) = 2 /\ DistinctFullNames
    /\ rs.result.kind = "return"
    /\ rs.result.id = Len(data_sources)

\* C7: with several child schemas none of which is a full match, the call
\* (every retrieve of which was answered) raises with one diagnostic entry
\* per candidate, each with the number of
\* required fields present and exactly the required fields absent, ordered by
\* descending score and then by name.
C7_NoMatchDiagnostics ==
    (Resolved /\ Cardinality(ChildSchemas) >= 2 /\ FullMatches = {}) =>
        /\ rs.result.kind = "raise"
        /\ rs.result.error = "could not resolve"
        /\ LET diag == rs.result.diag IN
           /\ Len(diag) = Cardinality(ChildSchemas)
           /\ \A i \in ChildSchemas :
                 \E k \in 1..Len(diag) :
                    /\ diag[k].data_source_id = i
                    /\ diag[k].name = NameOf(i)
                    /\ diag[k].matched =
                          Cardinality(RequiredSet \cap ds_properties[i])
                    /\ Range(diag[k].missing) = RequiredSet \ ds_properties[i]
                    /\ Len(diag[k].missing) =
                          Cardinality(RequiredSet \ ds_properties[i])
           /\ \A k, l \in 1..Len(diag) :
                 k < l =>
                    \/ diag[k].matched > diag[l].matched
                    \/ /\ diag[k].matched = diag[l].matched
                       /\ ~StrLess(diag[l].name, diag[k].name)

\* two partial matches, the better one listed last
C7_Witness ==
    /\ Resolved
    /\ ChildSchemas = {1, 2} /\ FullMatches = {}
    /\ ds_properties[1] = {"memo"}
    /\ ds_properties[2] = {"yongeo", "uimi"}
    /\ rs.result.kind = "raise"
    /\ rs.result.diag[1].data_source_id = 2
    /\ rs.result.diag[1].missing = <<"gwanryeon gisa">>
    /\ rs.result.diag[2].matched = 0

\* C8: a listing without child schema makes the call raise; a single child
\* schema (a listed entry that has an id) is returned exactly when it holds
\* every required field, and otherwise the call raises naming exactly the
\* fields it lacks (every retrieve of the call was answered).
C8_SingleAndEmpty ==
    Resolved =>
        /\ ChildSchemas = {} => rs.result.kind = "raise"
        /\ data_sources = <<>> => rs.result = Raised("no data_sources")
        /\ \A i \in ChildSchemas :
              ChildSchemas = {i} =>
                 /\ rs.result = [kind |-> "return", id |-> i]
                       <=> RequiredSet \subseteq ds_properties[i]
                 /\ ~(RequiredSet \subseteq ds_properties[i]) =>
                       /\ rs.result.kind = "raise"
                       /\ rs.result.error = "schema mismatch"
                       /\ Range(rs.result.missing) = RequiredSet \ ds_properties[i]
                       /\ Len(rs.result.missing) =
                             Cardinality(RequiredSet \ ds_properties[i])

\* the only child schema lacks two of the required fields
C8_Witness ==
    /\ Resolved
    /\ ChildSchemas = {1} /\ Len(data_sources) = 1
    /\ ds_properties[1] = {"uimi", "memo"}
    /\ rs.result.kind = "raise"
    /\ rs.result.missing = <<"yongeo", "gwanryeon gisa">>

====
